---- MODULE Spec2Model ----
(***************************************************************************)
(* The response evaluation engine of src/evaluator.py: ResponseEvaluator   *)
(* (the criteria store and its four scorers, full_evaluation) as a state   *)
(* machine.  Text is a sequence of one-character strings, so that          *)
(* str.lower, str.split, the `in` substring test and re.findall are        *)
(* computed character by character as Python computes them.                *)
(* create_evaluation_summary is the table of a mapping of records; the     *)
(* last specification runs the calls from two threads on one evaluator.    *)
(***************************************************************************)
EXTENDS Integers, Sequences, FiniteSets, TLC

VARIABLES
    accuracy_criteria,        \* self.accuracy_criteria
    completeness_checklist,   \* self.completeness_checklist
    call,                     \* the invocation in progress: [op, args]
    ret,                      \* the record the last completed call returned
    history,                  \* the full_evaluation records the caller holds
    threads                   \* the call each thread is in, where threads share the evaluator

vars == <<accuracy_criteria, completeness_checklist, call, ret, history, threads>>

store == <<accuracy_criteria, completeness_checklist>>

----------------------------------------------------------------------------
(* Characters and the str methods the evaluator uses.                      *)

UpperLetters ==
    <<"A", "B", "C", "D", "E", "F", "G", "H", "I", "J", "K", "L", "M",
      "N", "O", "P", "Q", "R", "S", "T", "U", "V", "W", "X", "Y", "Z">>

LowerLetters ==
    <<"a", "b", "c", "d", "e", "f", "g", "h", "i", "j", "k", "l", "m",
      "n", "o", "p", "q", "r", "s", "t", "u", "v", "w", "x", "y", "z">>

Range(f) ==
    {f[i] : i \in DOMAIN f}

Letters ==
    Range(LowerLetters) \cup Range(UpperLetters)

Digits ==
    {"0", "1", "2", "3", "4", "5", "6", "7", "8", "9"}

Whitespace ==
    {" ", "\t", "\n", "\r"}

\* str.isspace of one character: what str.split() splits on and \s matches.
IsSpace(c) ==
    c \in Whitespace

\* \d of the re module.
IsDigit(c) ==
    c \in Digits

\* \w of the re module: a letter, a digit or the underscore.
IsWord(c) ==
    c \in Letters \/ c \in Digits \/ c = "_"

\* str.lower() of one character.
LowerOf ==
    [c \in Range(UpperLetters) |->
        LowerLetters[CHOOSE i \in DOMAIN UpperLetters : UpperLetters[i] = c]]

LowerChar(c) ==
    IF c \in DOMAIN LowerOf THEN LowerOf[c] ELSE c

\* str.lower()
lower(s) ==
    SubSeq([i \in 1..Len(s) |-> LowerChar(s[i])], 1, Len(s))

\* The character at index i (1-based), or "" past either end of the text.
CharAt(s, i) ==
    IF i >= 1 /\ i <= Len(s) THEN s[i] ELSE ""

\* The indices at which a whitespace-delimited token of s starts.
TokenStarts(s) ==
    {i \in 1..Len(s) : ~IsSpace(s[i]) /\ (i = 1 \/ IsSpace(s[i - 1]))}

\* The index of the last character of the token that starts at i.
TokenEnd(s, i) ==
    CHOOSE j \in i..Len(s) :
        /\ \A k \in i..j : ~IsSpace(s[k])
        /\ (j = Len(s) \/ IsSpace(s[j + 1]))

\* str.split(): the whitespace-delimited tokens of s, in order.
split(s) ==
    LET starts == TokenStarts(s)
        nth(k) == CHOOSE i \in starts : Cardinality({j \in starts : j < i}) = k - 1
    IN  [k \in 1..Cardinality(starts) |-> SubSeq(s, nth(k), TokenEnd(s, nth(k)))]

\* len(s.split()): the number of tokens, which is the number of token starts.
WordCount(s) ==
    Cardinality(TokenStarts(s))

\* needle in haystack (Python's substring test; "" is in every string).
Contains(haystack, needle) ==
    \E i \in 0..(Len(haystack) - Len(needle)) :
        /\ Len(needle) = 0 \/ haystack[i + 1] = needle[1]
        /\ SubSeq(haystack, i + 1, i + Len(needle)) = needle

\* any(phrase in text for phrase in phrases)
AnyIn(phrases, text) ==
    \E k \in DOMAIN phrases : Contains(text, phrases[k])

----------------------------------------------------------------------------
(* Numbers.  A quotient a / b is kept exact as [num, den]; den = 0 stands  *)
(* for the ZeroDivisionError Python raises.  round(x, n) rounds the float  *)
(* that holds the quotient, correctly and half-to-even on that float's     *)
(* exact value, so a decimal tie is decided by the side of the quotient    *)
(* on which its nearest float lies.                                        *)

\* a / b
TrueDiv(a, b) ==
    [num |-> a, den |-> b]

\* The literal 0 of the `else 0` branches.
Zero ==
    [num |-> 0, den |-> 1]

Raised(x) ==
    x.den = 0

\* x >= y for quotients with positive denominators.
GreaterEq(x, y) ==
    x.num * y.den >= y.num * x.den

RECURSIVE Pow2(_)
Pow2(k) ==
    IF k = 0 THEN 1 ELSE 2 * Pow2(k - 1)

\* The remainder left after k more binary digits of r / b (0 <= r < b).
RECURSIVE RemAfter(_, _, _)
RemAfter(r, b, k) ==
    IF k = 0 THEN r ELSE RemAfter((2 * r) % b, b, k - 1)

\* Where the float nearest to m / n lies (m, n > 0): 1 above the quotient,
\* -1 below it, 0 when the float holds it exactly (round-to-nearest-even on
\* the 52 fraction digits that follow the leading 1 of a float's significand).
DoubleCmp(m, n) ==
    LET up   == CHOOSE k \in 0..20 : m * Pow2(k) >= n /\ (k = 0 \/ m * Pow2(k - 1) < n)
        a    == m * Pow2(up)
        down == CHOOSE e \in 0..20 : n * Pow2(e) <= a /\ n * Pow2(e + 1) > a
        b    == n * Pow2(down)
        prev == RemAfter(a - b, b, 51)
        last == RemAfter(prev, b, 1)
    IN  IF last = 0 THEN 0
        ELSE IF 2 * last > b THEN 1
        ELSE IF 2 * last < b THEN -1
        ELSE IF 2 * prev >= b THEN 1 ELSE -1

\* round(x, n) in units of 1 / scale (scale = 10^n), for x >= 0; cmp is the
\* side of x on which the rounded float lies.
RoundHalfEven(x, scale, cmp) ==
    LET q == (x.num * scale) \div x.den
        r == (x.num * scale) % x.den
    IN  IF 2 * r < x.den THEN q
        ELSE IF 2 * r > x.den THEN q + 1
        ELSE IF cmp > 0 THEN q + 1
        ELSE IF cmp < 0 THEN q
        ELSE IF q % 2 = 0 THEN q ELSE q + 1

\* round(a / b, 2), in hundredths.
Round2(x) ==
    RoundHalfEven(x, 100, IF x.num = 0 THEN 0 ELSE DoubleCmp(x.num, x.den))

\* round(a / b * 100, 1), in tenths.  A tie needs 1000a/b to end in .5, so
\* b/gcd(a,b) is 16 (a / b and the product are exact floats: half-to-even)
\* or a multiple of 80.
Round1Percent(x) ==
    RoundHalfEven([num |-> x.num * 100, den |-> x.den], 10, 0)

----------------------------------------------------------------------------
(* re.findall(r'\b\d{2,}\s*%\b|\b\$\d+(?:,\d+)*(?:\.\d+)?\s*(?:million|    *)
(* billion)?\b', response).  A position p in 0..Len(s) lies between s[p]   *)
(* and s[p+1]; a match attempt returns the position it ends at, or NoMatch.*)
(* The matcher tries what the backtracking engine tries, in its order:     *)
(* the first alternative before the second, a greedy repeat from its       *)
(* longest run down, an optional group before its omission.                *)

NoMatch ==
    -1

\* "million"
P_million ==
    <<"m", "i", "l", "l", "i", "o", "n">>

\* "billion"
P_billion ==
    <<"b", "i", "l", "l", "i", "o", "n">>

\* \b at p: exactly one of the two neighbours is a word character.
WordBoundary(s, p) ==
    IsWord(CharAt(s, p)) # IsWord(CharAt(s, p + 1))

\* The position after the longest run of digits that starts at p.
DigitsEnd(s, p) ==
    CHOOSE q \in p..Len(s) :
        /\ \A k \in (p + 1)..q : IsDigit(s[k])
        /\ ~IsDigit(CharAt(s, q + 1))

\* The position after the longest run of whitespace that starts at p.
SpacesEnd(s, p) ==
    CHOOSE q \in p..Len(s) :
        /\ \A k \in (p + 1)..q : IsSpace(s[k])
        /\ ~IsSpace(CharAt(s, q + 1))

\* The literal word at p.
LiteralAt(s, p, word) ==
    /\ p + Len(word) <= Len(s)
    /\ SubSeq(s, p + 1, p + Len(word)) = word

\* \b\d{2,}\s*%\b at p.  The digit run and the whitespace run cannot be cut
\* short: what follows a shorter run is a digit, or whitespace, and not %.
MatchPercent(s, p) ==
    LET d == DigitsEnd(s, p)
        w == SpacesEnd(s, d)
    IN  IF /\ WordBoundary(s, p)
           /\ IsDigit(CharAt(s, p + 1))
           /\ d - p >= 2
           /\ CharAt(s, w + 1) = "%"
           /\ WordBoundary(s, w + 1)
        THEN w + 1
        ELSE NoMatch

\* The closing \b at p.
MatchEnd(s, p) ==
    IF WordBoundary(s, p) THEN p ELSE NoMatch

\* (?:million|billion)?\b at p.
MatchUnit(s, p) ==
    LET m == IF LiteralAt(s, p, P_million) THEN MatchEnd(s, p + Len(P_million)) ELSE NoMatch
        b == IF LiteralAt(s, p, P_billion) THEN MatchEnd(s, p + Len(P_billion)) ELSE NoMatch
    IN  IF m # NoMatch THEN m
        ELSE IF b # NoMatch THEN b
        ELSE MatchEnd(s, p)

\* \s*(?:million|billion)?\b with the whitespace run ending at q, then q-1, .. p.
RECURSIVE MatchSpaces(_, _, _)
MatchSpaces(s, p, q) ==
    IF q < p THEN NoMatch
    ELSE LET r == MatchUnit(s, q)
         IN  IF r # NoMatch THEN r ELSE MatchSpaces(s, p, q - 1)

\* The rest of the pattern after a run \.\d+ that ends at q, then q-1, .. lo.
RECURSIVE MatchFractionRun(_, _, _)
MatchFractionRun(s, lo, q) ==
    IF q < lo THEN NoMatch
    ELSE LET r == MatchSpaces(s, q, SpacesEnd(s, q))
         IN  IF r # NoMatch THEN r ELSE MatchFractionRun(s, lo, q - 1)

\* (?:\.\d+)?\s*(?:million|billion)?\b at p.
MatchFraction(s, p) ==
    LET with == IF CharAt(s, p + 1) = "." /\ IsDigit(CharAt(s, p + 2))
                THEN MatchFractionRun(s, p + 2, DigitsEnd(s, p + 1))
                ELSE NoMatch
    IN  IF with # NoMatch THEN with ELSE MatchSpaces(s, p, SpacesEnd(s, p))

\* (?:,\d+)*(?:\.\d+)?\s*(?:million|billion)?\b at p; MatchGroupRun is one
\* more ,\d+ whose digit run ends at q, then q-1, .. lo.
RECURSIVE MatchGroups(_, _)
RECURSIVE MatchGroupRun(_, _, _)
MatchGroups(s, p) ==
    LET more == IF CharAt(s, p + 1) = "," /\ IsDigit(CharAt(s, p + 2))
                THEN MatchGroupRun(s, p + 2, DigitsEnd(s, p + 1))
                ELSE NoMatch
    IN  IF more # NoMatch THEN more ELSE MatchFraction(s, p)

MatchGroupRun(s, lo, q) ==
    IF q < lo THEN NoMatch
    ELSE LET r == MatchGroups(s, q)
         IN  IF r # NoMatch THEN r ELSE MatchGroupRun(s, lo, q - 1)

\* \d+ ending at q, then q-1, .. lo, followed by the rest of the pattern.
RECURSIVE MatchDigitsRun(_, _, _)
MatchDigitsRun(s, lo, q) ==
    IF q < lo THEN NoMatch
    ELSE LET r == MatchGroups(s, q)
         IN  IF r # NoMatch THEN r ELSE MatchDigitsRun(s, lo, q - 1)

\* \b\$\d+(?:,\d+)*(?:\.\d+)?\s*(?:million|billion)?\b at p.
MatchDollar(s, p) ==
    IF /\ WordBoundary(s, p)
       /\ CharAt(s, p + 1) = "$"
       /\ IsDigit(CharAt(s, p + 2))
    THEN MatchDigitsRun(s, p + 2, DigitsEnd(s, p + 1))
    ELSE NoMatch

\* The whole pattern at p: the first alternative, else the second.
MatchAt(s, p) ==
    LET a == MatchPercent(s, p)
    IN  IF a # NoMatch THEN a ELSE MatchDollar(s, p)

\* len(re.findall(pattern, s)): the matches found scanning left to right,
\* each search resuming where the previous match ended.
RECURSIVE CountFrom(_, _, _)
CountFrom(s, starts, pos) ==
    LET rest == {p \in starts : p >= pos}
    IN  IF rest = {} THEN 0
        ELSE LET first == CHOOSE p \in rest : \A q \in rest : p <= q
             IN  1 + CountFrom(s, starts, MatchAt(s, first))

FindAllCount(s) ==
    CountFrom(s, {p \in 0..Len(s) : MatchAt(s, p) # NoMatch}, 0)

----------------------------------------------------------------------------
(* The texts of the model: criteria, the phrase lists, responses.           *)



\* 'reorder point'
CritReorderPoint ==
    <<"r", "e", "o", "r", "d", "e", "r", " ", "p", "o", "i", "n", "t">>

\* 'safety stock'
CritSafetyStock ==
    <<"s", "a", "f", "e", "t", "y", " ", "s", "t", "o", "c", "k">>

\* 'lead time'
CritLeadTime ==
    <<"l", "e", "a", "d", " ", "t", "i", "m", "e">>

\* 'demand forecasting'
CritDemandForecasting ==
    <<"d", "e", "m", "a", "n", "d", " ", "f", "o", "r", "e", "c", "a", "s",
      "t", "i", "n", "g">>

\* 'Stock'
CritStockUpper ==
    <<"S", "t", "o", "c", "k">>

\* ''
CritEmpty ==
    <<>>

\* '  '
CritBlank ==
    <<" ", " ">>

\* 'a'
CritA ==
    <<"a">>

\* 'zzz'
CritZ ==
    <<"z", "z", "z">>

\* 'definitely'
P_definitely ==
    <<"d", "e", "f", "i", "n", "i", "t", "e", "l", "y">>

\* 'certainly'
P_certainly ==
    <<"c", "e", "r", "t", "a", "i", "n", "l", "y">>

\* 'absolutely'
P_absolutely ==
    <<"a", "b", "s", "o", "l", "u", "t", "e", "l", "y">>

\* 'without a doubt'
P_without_a_doubt ==
    <<"w", "i", "t", "h", "o", "u", "t", " ", "a", " ", "d", "o", "u", "b",
      "t">>

\* 'always'
P_always ==
    <<"a", "l", "w", "a", "y", "s">>

\* 'never'
P_never ==
    <<"n", "e", "v", "e", "r">>

\* 'guaranteed'
P_guaranteed ==
    <<"g", "u", "a", "r", "a", "n", "t", "e", "e", "d">>

\* 'may'
P_may ==
    <<"m", "a", "y">>

\* 'might'
P_might ==
    <<"m", "i", "g", "h", "t">>

\* 'could'
P_could ==
    <<"c", "o", "u", "l", "d">>

\* 'typically'
P_typically ==
    <<"t", "y", "p", "i", "c", "a", "l", "l", "y">>

\* 'often'
P_often ==
    <<"o", "f", "t", "e", "n">>

\* 'generally'
P_generally ==
    <<"g", "e", "n", "e", "r", "a", "l", "l", "y">>

\* 'depending on'
P_depending_on ==
    <<"d", "e", "p", "e", "n", "d", "i", "n", "g", " ", "o", "n">>

\* ''
RespEmpty ==
    <<>>

\* 'The reorder point is definitely 42% better and could reduce costs.'
RespExample ==
    <<"T", "h", "e", " ", "r", "e", "o", "r", "d", "e", "r", " ", "p", "o",
      "i", "n", "t", " ", "i", "s", " ", "d", "e", "f", "i", "n", "i", "t",
      "e", "l", "y", " ", "4", "2", "%", " ", "b", "e", "t", "t", "e", "r",
      " ", "a", "n", "d", " ", "c", "o", "u", "l", "d", " ", "r", "e", "d",
      "u", "c", "e", " ", "c", "o", "s", "t", "s", ".">>

\* 'Restocking ALWAYS helps, guaranteed'
RespRestock ==
    <<"R", "e", "s", "t", "o", "c", "k", "i", "n", "g", " ", "A", "L", "W",
      "A", "Y", "S", " ", "h", "e", "l", "p", "s", ",", " ", "g", "u", "a",
      "r", "a", "n", "t", "e", "e", "d">>

\* 'it could vary'
RespCould ==
    <<"i", "t", " ", "c", "o", "u", "l", "d", " ", "v", "a", "r", "y">>

\* '10% 20% 30% 40%'
RespPercentStandalone ==
    <<"1", "0", "%", " ", "2", "0", "%", " ", "3", "0", "%", " ", "4", "0",
      "%">>

\* '10%a 20 %b 30%c 40%d'
RespPercentGlued ==
    <<"1", "0", "%", "a", " ", "2", "0", " ", "%", "b", " ", "3", "0", "%",
      "c", " ", "4", "0", "%", "d">>

\* '10%a 20%b 30%c 4%d'
RespPercentThree ==
    <<"1", "0", "%", "a", " ", "2", "0", "%", "b", " ", "3", "0", "%", "c",
      " ", "4", "%", "d">>

\* '$5 $6 $7 $1,200.50 million'
RespDollarStandalone ==
    <<"$", "5", " ", "$", "6", " ", "$", "7", " ", "$", "1", ",", "2", "0",
      "0", ".", "5", "0", " ", "m", "i", "l", "l", "i", "o", "n">>

\* 'a$5 b$6 c$7 d$1,200.50 million'
RespDollarGlued ==
    <<"a", "$", "5", " ", "b", "$", "6", " ", "c", "$", "7", " ", "d", "$",
      "1", ",", "2", "0", "0", ".", "5", "0", " ", "m", "i", "l", "l", "i",
      "o", "n">>

\* 'a$1.5b c$2 d e$3,4f g$9,1.2 billion 77%h'
RespDollarMixed ==
    <<"a", "$", "1", ".", "5", "b", " ", "c", "$", "2", " ", "d", " ", "e",
      "$", "3", ",", "4", "f", " ", "g", "$", "9", ",", "1", ".", "2", " ",
      "b", "i", "l", "l", "i", "o", "n", " ", "7", "7", "%", "h">>

\* 'never 10%a 20%b 30%c 40%d'
RespAllFour ==
    <<"n", "e", "v", "e", "r", " ", "1", "0", "%", "a", " ", "2", "0", "%",
      "b", " ", "3", "0", "%", "c", " ", "4", "0", "%", "d">>

\* 'lead\ttime\nmight'
RespTabs ==
    <<"l", "e", "a", "d", "\t", "t", "i", "m", "e", "\n", "m", "i", "g", "h", "t">>

----------------------------------------------------------------------------
(* ResponseEvaluator.  A method's result is the dict it returns, or        *)
(* ZeroDivisionError when a division by zero is evaluated.  Decimals are   *)
(* kept as scaled integers: 'ratio' and 'words_per_token' in hundredths,   *)
(* 'percentage' in tenths.                                                 *)

ZeroDivisionError ==
    [exception |-> "ZeroDivisionError"]

IsError(result) ==
    "exception" \in DOMAIN result

\* KeywordMatch with all() in place of any(): every keyword must occur.
KeywordMatchAll(text, response_lower) ==
    LET keywords == split(lower(text))
    IN  \A k \in DOMAIN keywords : Contains(response_lower, keywords[k])

\* keywords = text.lower().split(); any(kw in response_lower for kw in keywords)
KeywordMatch(text, response_lower) ==
    LET keywords == split(lower(text))
    IN  \E k \in DOMAIN keywords : Contains(response_lower, keywords[k])

\* AccuracyLoop that skips a criterion already in the list it belongs to.
RECURSIVE AccuracyLoopNoRepeat(_, _, _, _)
AccuracyLoopNoRepeat(criteria, response_lower, i, lists) ==
    IF i > Len(criteria) THEN lists
    ELSE LET criterion == criteria[i]
         IN  AccuracyLoopNoRepeat(criteria, response_lower, i + 1,
                 IF KeywordMatch(criterion, response_lower)
                 THEN IF criterion \in Range(lists.matched) THEN lists
                      ELSE [lists EXCEPT !.matched = Append(@, criterion)]
                 ELSE IF criterion \in Range(lists.missing) THEN lists
                      ELSE [lists EXCEPT !.missing = Append(@, criterion)])

\* The loop of evaluate_accuracy from criterion i on: each criterion is
\* appended to matched or to missing.
RECURSIVE AccuracyLoop(_, _, _, _)
AccuracyLoop(criteria, response_lower, i, lists) ==
    IF i > Len(criteria) THEN lists
    ELSE LET criterion == criteria[i]
         IN  AccuracyLoop(criteria, response_lower, i + 1,
                 IF KeywordMatch(criterion, response_lower)
                 THEN [lists EXCEPT !.matched = Append(@, criterion)]
                 ELSE [lists EXCEPT !.missing = Append(@, criterion)])

\* ratio >= 0.8
FullThreshold ==
    [num |-> 8, den |-> 10]

\* ratio >= 0.4
PartialThreshold ==
    [num |-> 4, den |-> 10]

\* AccuracyScore with > in place of >=.
AccuracyScoreStrict(ratio) ==
    IF ~GreaterEq(FullThreshold, ratio) THEN 2
    ELSE IF ~GreaterEq(PartialThreshold, ratio) THEN 1
    ELSE 0

\* The score of a ratio: 0 (wrong), 1 (partial), 2 (fully correct).
AccuracyScore(ratio) ==
    IF GreaterEq(ratio, FullThreshold) THEN 2
    ELSE IF GreaterEq(ratio, PartialThreshold) THEN 1
    ELSE 0

\* evaluate_accuracy after its loop, which left lists: the ratio, the score
\* and the record returned.
AccuracyResult(self, lists) ==
    LET ratio == IF Len(self.accuracy_criteria) # 0
                 THEN TrueDiv(Len(lists.matched), Len(self.accuracy_criteria))
                 ELSE Zero
    IN  IF Raised(ratio) THEN ZeroDivisionError
        ELSE [score            |-> AccuracyScore(ratio),
              ratio            |-> Round2(ratio),
              matched_criteria |-> lists.matched,
              missing_criteria |-> lists.missing]

evaluate_accuracy(self, response) ==
    LET response_lower == lower(response)
        lists == AccuracyLoop(self.accuracy_criteria, response_lower, 1,
                              [matched |-> <<>>, missing |-> <<>>])
    IN  AccuracyResult(self, lists)

\* The loop of evaluate_completeness from item i on.
RECURSIVE CompletenessLoop(_, _, _, _)
CompletenessLoop(checklist, response_lower, i, lists) ==
    IF i > Len(checklist) THEN lists
    ELSE LET item == checklist[i]
         IN  CompletenessLoop(checklist, response_lower, i + 1,
                 IF KeywordMatch(item, response_lower)
                 THEN [lists EXCEPT !.covered = Append(@, item)]
                 ELSE [lists EXCEPT !.missing = Append(@, item)])

\* evaluate_completeness after its loop, which left lists: the percentage
\* and the record returned.
CompletenessResult(self, lists) ==
    LET percentage == IF Len(self.completeness_checklist) # 0
                      THEN TrueDiv(Len(lists.covered), Len(self.completeness_checklist))
                      ELSE Zero
    IN  IF Raised(percentage) THEN ZeroDivisionError
        ELSE [percentage    |-> Round1Percent(percentage),
              covered_items |-> lists.covered,
              missing_items |-> lists.missing]

evaluate_completeness(self, response) ==
    LET response_lower == lower(response)
        lists == CompletenessLoop(self.completeness_checklist, response_lower, 1,
                                  [covered |-> <<>>, missing |-> <<>>])
    IN  CompletenessResult(self, lists)

\* token_count < 200
ConciseBelow ==
    200

\* token_count < 500
ModerateBelow ==
    500

\* WordsPerToken without the guard on token_count.
WordsPerTokenUnguarded(word_count, token_count) ==
    TrueDiv(word_count, token_count)

\* word_count / token_count if token_count > 0 else 0
WordsPerToken(word_count, token_count) ==
    IF token_count > 0 THEN TrueDiv(word_count, token_count) ELSE Zero

\* EfficiencyRating with <= in place of <.
EfficiencyRatingInclusive(token_count) ==
    IF token_count <= ConciseBelow THEN "Concise"
    ELSE IF token_count <= ModerateBelow THEN "Moderate"
    ELSE "Verbose"

\* The rating, by the token count.
EfficiencyRating(token_count) ==
    IF token_count < ConciseBelow THEN "Concise"
    ELSE IF token_count < ModerateBelow THEN "Moderate"
    ELSE "Verbose"

evaluate_token_efficiency(self, response, token_count) ==
    LET word_count == WordCount(response)
        words_per_token == WordsPerToken(word_count, token_count)
        rating == EfficiencyRating(token_count)
    IN  IF Raised(words_per_token) THEN ZeroDivisionError
        ELSE [token_count       |-> token_count,
              word_count        |-> word_count,
              words_per_token   |-> Round2(words_per_token),
              efficiency_rating |-> rating]

overconfidence_phrases ==
    <<P_definitely, P_certainly, P_absolutely, P_without_a_doubt,
      P_always, P_never, P_guaranteed>>

hedging_phrases ==
    <<P_may, P_might, P_could, P_typically, P_often, P_generally, P_depending_on>>

\* len(specific_stats) > 3
MaxStats ==
    3

\* word_count > 600
MaxWords ==
    600

OverconfidenceIssue ==
    [type        |-> "Overconfidence",
     description |-> <<"Response uses absolute language without hedging uncertainty">>,
     severity    |-> "Medium"]

HallucinationIssue(n) ==
    [type        |-> "Potential Hallucination",
     description |-> <<"Response contains ", n, " specific statistics that may need verification">>,
     severity    |-> "High"]

ElaborationIssue(n) ==
    [type        |-> "Over-elaboration",
     description |-> <<"Response is ", n, " words, potentially too verbose">>,
     severity    |-> "Low"]

HedgingIssue ==
    [type        |-> "Missing Uncertainty Language",
     description |-> <<"Response lacks hedging language for uncertain claims">>,
     severity    |-> "Medium"]

\* OverconfidenceCheck that appends one issue for every phrase it finds.
OverconfidenceCheckPerPhrase(response_lower) ==
    LET found == {k \in DOMAIN overconfidence_phrases :
                      Contains(response_lower, overconfidence_phrases[k])}
    IN  SubSeq([i \in 1..Cardinality(found) |-> OverconfidenceIssue],
               1, Cardinality(found))

\* The first check, on response_lower.
OverconfidenceCheck(response_lower) ==
    IF AnyIn(overconfidence_phrases, response_lower)
    THEN <<OverconfidenceIssue>>
    ELSE <<>>

\* The second check: the regular expression is applied to the response as
\* given, not to response_lower.
HallucinationCheck(response) ==
    LET specific_stats == FindAllCount(response)
    IN  IF specific_stats > MaxStats
        THEN <<HallucinationIssue(specific_stats)>>
        ELSE <<>>

\* The third check.
ElaborationCheck(response) ==
    LET word_count == WordCount(response)
    IN  IF word_count > MaxWords
        THEN <<ElaborationIssue(word_count)>>
        ELSE <<>>

\* HedgingCheck as an elif of the first check: skipped once that one fired.
HedgingCheckElse(response_lower) ==
    IF AnyIn(overconfidence_phrases, response_lower) THEN <<>>
    ELSE IF ~AnyIn(hedging_phrases, response_lower) THEN <<HedgingIssue>>
    ELSE <<>>

\* The fourth check, on response_lower.
HedgingCheck(response_lower) ==
    IF ~AnyIn(hedging_phrases, response_lower)
    THEN <<HedgingIssue>>
    ELSE <<>>

\* The issues list after the four checks, each appending in turn.
Issues(response) ==
    LET response_lower == lower(response)
    IN  OverconfidenceCheck(response_lower)
            \o HallucinationCheck(response)
            \o ElaborationCheck(response)
            \o HedgingCheck(response_lower)

\* The dict detect_failure_behaviors returns for an issues list.
FailureRecord(issues) ==
    [issues              |-> issues,
     issue_count         |-> Len(issues),
     has_critical_issues |-> \E i \in DOMAIN issues : issues[i].severity = "High"]

\* detect_failure_behaviors with an issues list that outlives the call: it
\* still holds the issues of the record the caller kept last.
DetectWithSharedIssues(self, response) ==
    LET kept == IF Len(history) = 0 THEN <<>>
                ELSE history[Len(history)].value.failure_behaviors.issues
    IN  FailureRecord(kept \o Issues(response))

detect_failure_behaviors(self, response) ==
    FailureRecord(Issues(response))

\* Summary with len(failures), the size of the dict, for its issue count.
SummaryLenOfDict(accuracy, completeness, efficiency, failures) ==
    [accuracy_score   |-> accuracy.score,
     completeness_pct |-> completeness.percentage,
     token_count      |-> efficiency.token_count,
     issue_count      |-> Cardinality(DOMAIN failures)]

\* The 'summary' entry of the record full_evaluation returns.
Summary(accuracy, completeness, efficiency, failures) ==
    [accuracy_score   |-> accuracy.score,
     completeness_pct |-> completeness.percentage,
     token_count      |-> efficiency.token_count,
     issue_count      |-> failures.issue_count]

\* The record full_evaluation returns, of the records of its four calls.
EvaluationRecord(accuracy, completeness, efficiency, failures, clarity_score) ==
    [accuracy          |-> accuracy,
     completeness      |-> completeness,
     token_efficiency  |-> efficiency,
     failure_behaviors |-> failures,
     clarity_score     |-> clarity_score,
     summary           |-> Summary(accuracy, completeness, efficiency, failures)]

\* clarity_score is <<>> for None and <<n>> for the score n.
full_evaluation(self, response, token_count, clarity_score) ==
    LET accuracy     == evaluate_accuracy(self, response)
        completeness == evaluate_completeness(self, response)
        efficiency   == evaluate_token_efficiency(self, response, token_count)
        failures     == detect_failure_behaviors(self, response)
    IN  IF IsError(accuracy) THEN accuracy
        ELSE IF IsError(completeness) THEN completeness
        ELSE IF IsError(efficiency) THEN efficiency
        ELSE EvaluationRecord(accuracy, completeness, efficiency, failures, clarity_score)

\* The evaluations mapping is the sequence of its items, in iteration order:
\* [variant_id, eval_result], no two with the same variant_id.  A dict is a
\* function on its keys; {} is the function on no key.
EmptyDict ==
    <<>>

\* What a column of a row holds: [value |-> v] for a value v read from the
\* record, [text |-> s] for a text the function supplies itself.
Cells(d) ==
    [key \in DOMAIN d |-> [value |-> d[key]]]

\* 'N/A'
NotApplicable ==
    [text |-> "N/A"]

\* 'TBD'
NotYetProvided ==
    [text |-> "TBD"]

\* d.get(key, default)
get(d, key, default) ==
    IF key \in DOMAIN d THEN d[key] ELSE default

\* The row appended for one item of the mapping.  Columns: 'Variant',
\* 'Accuracy (0-2)', 'Completeness (%)', 'Token Count', 'Issues Found',
\* 'Clarity (1-5)'.
Row(variant_id, eval_result) ==
    LET summary == get(eval_result, "summary", EmptyDict)
    IN  [Variant      |-> variant_id,
         Accuracy     |-> get(Cells(summary), "accuracy_score", NotApplicable),
         Completeness |-> get(Cells(summary), "completeness_pct", NotApplicable),
         TokenCount   |-> get(Cells(summary), "token_count", NotApplicable),
         IssuesFound  |-> get(Cells(summary), "issue_count", NotApplicable),
         Clarity      |-> get(Cells(eval_result), "clarity_score", NotYetProvided)]

\* create_evaluation_summary that inserts each row at the front of rows.
SummaryRowsInserted(evaluations) ==
    [i \in 1..Len(evaluations) |->
        LET item == evaluations[Len(evaluations) + 1 - i]
        IN  Row(item.variant_id, item.eval_result)]

\* create_evaluation_summary that skips the items without a 'summary'.
SummaryOfSummarised(evaluations) ==
    LET kept == SelectSeq(evaluations, LAMBDA item : "summary" \in DOMAIN item.eval_result)
    IN  [i \in 1..Len(kept) |-> Row(kept[i].variant_id, kept[i].eval_result)]

create_evaluation_summary(evaluations) ==
    [i \in 1..Len(evaluations) |->
        Row(evaluations[i].variant_id, evaluations[i].eval_result)]

----------------------------------------------------------------------------
(* The inputs: the criteria lists a configuration file may supply, and the *)
(* responses, token counts and clarity scores a caller may pass.           *)

\* k words "x", each after one space.
Pad(k) ==
    SubSeq([i \in 1..(2 * k) |-> IF i % 2 = 1 THEN " " ELSE "x"], 1, 2 * k)

\* n copies of the text c.
Copies(n, c) ==
    SubSeq([i \in 1..n |-> c], 1, n)

AccuracyLists ==
    { <<>>,
      <<CritReorderPoint, CritSafetyStock>>,
      <<CritStockUpper, CritEmpty, CritStockUpper, CritBlank, CritA>>,
      <<CritLeadTime, CritZ, CritDemandForecasting, CritSafetyStock, CritReorderPoint>> }

CheckLists ==
    { <<>>,
      <<CritReorderPoint, CritLeadTime, CritDemandForecasting>>,
      <<CritLeadTime, CritBlank, CritLeadTime>> }

ShortResponses ==
    { RespEmpty, RespExample, RespRestock, RespCould, RespTabs,
      RespPercentStandalone, RespPercentGlued, RespPercentThree,
      RespDollarStandalone, RespDollarGlued, RespDollarMixed }

\* Responses of MaxWords and of MaxWords + 1 words.
LongResponses ==
    { Pad(MaxWords),
      RespCould \o Pad(MaxWords + 1 - WordCount(RespCould)),
      RespAllFour \o Pad(MaxWords + 1 - WordCount(RespAllFour)) }

Responses ==
    ShortResponses \cup LongResponses

TokenCounts ==
    { 0, 7, ConciseBelow - 1, ConciseBelow, ModerateBelow - 1, ModerateBelow }

\* None, or a peer-rated score.
ClarityScores ==
    { <<>>, <<4>> }

\* The longest criteria list of the ratio specification.
MaxCriteria ==
    44

\* Lists of n criteria of which the response "lead time" matches m.
RatioLists ==
    { Copies(p[1], CritLeadTime) \o Copies(p[2] - p[1], CritZ) :
          p \in {q \in (0..MaxCriteria) \X (0..MaxCriteria) : q[1] <= q[2]} }

\* The inputs of the session specification, in which the caller keeps records.
SessionResponses ==
    { RespExample, RespPercentGlued }

SessionAccuracyLists ==
    { <<>>, <<CritReorderPoint, CritSafetyStock>> }

SessionCheckLists ==
    { <<CritReorderPoint, CritLeadTime, CritDemandForecasting>> }

SessionTokenCounts ==
    { 0, ConciseBelow }

\* How many full_evaluation records the caller keeps.
MaxHistory ==
    2

\* The variant identifiers that key a mapping of evaluations.
VariantIds ==
    { "P1_direct", "P2_constrained", "P3_role_based" }

\* The (response, token_count, clarity_score) of the evaluations a mapping holds.
SummaryInputs ==
    { <<RespExample, 0, <<>>>>,
      <<RespExample, ConciseBelow, <<4>>>>,
      <<RespPercentGlued, ConciseBelow, <<4>>>> }

\* The keys a partial record lacks: none, 'summary', one of the summary's
\* four, or 'clarity_score'.
Removals ==
    { {}, {"summary"}, {"accuracy_score"}, {"completeness_pct"},
      {"token_count"}, {"issue_count"}, {"clarity_score"} }

\* The dict d without the keys in removed.
Without(d, removed) ==
    [key \in DOMAIN d \ removed |-> d[key]]

\* The record eval_result without the keys in removed, in it or in its summary.
Partial(eval_result, removed) ==
    LET top == Without(eval_result, removed)
    IN  IF "summary" \in DOMAIN top
        THEN [top EXCEPT !["summary"] = Without(@, removed)]
        ELSE top

----------------------------------------------------------------------------
(* The state machine.  A caller invokes one method at a time on the        *)
(* evaluator built by __init__; the method runs and returns its record.    *)

NoCall ==
    [op |-> "none"]

NoRet ==
    [op |-> "none"]

\* The thread identifiers, and a thread that is in no call.
Threads ==
    { "t1", "t2" }

\* matched = [], missing = []
NoAccuracyLists ==
    [matched |-> <<>>, missing |-> <<>>]

\* covered = [], missing = []
NoCompletenessLists ==
    [covered |-> <<>>, missing |-> <<>>]

\* The frame of a thread: the call it is in (op, args), its position (pc),
\* the locals of the loops (i and the lists), the records the calls made so
\* far returned (results), the value it returned at last, and whether
\* another thread's call ran while this one did.
Idle ==
    [pc |-> "idle", op |-> "none", args |-> <<>>, overlapped |-> FALSE,
     i |-> 1, accuracy_lists |-> NoAccuracyLists,
     completeness_lists |-> NoCompletenessLists,
     results |-> <<>>, value |-> <<>>]

\* No thread uses the evaluator: the caller's calls come one at a time.
NoThreads ==
    [t \in Threads |-> Idle]

\* The evaluator object.
self ==
    [accuracy_criteria      |-> accuracy_criteria,
     completeness_checklist |-> completeness_checklist]

\* __init__: both lists are read from the configuration, once.
Init ==
    /\ accuracy_criteria \in AccuracyLists
    /\ completeness_checklist \in CheckLists
    /\ call = NoCall
    /\ ret = NoRet
    /\ history = <<>>
    /\ threads = NoThreads

\* The caller, holding no record of a call, invokes method op with arguments args.
Invoke(op, args) ==
    /\ call = NoCall
    /\ ret = NoRet
    /\ call' = [op |-> op, args |-> args]
    /\ UNCHANGED <<store, ret, history, threads>>

\* The method returns result (a dict, or an exception) to the caller.
Return(result) ==
    /\ ret' = [op |-> call.op, args |-> call.args,
               raised |-> IsError(result), value |-> result]
    /\ call' = NoCall
    /\ UNCHANGED <<store, history, threads>>

EvaluateAccuracy ==
    /\ call.op = "evaluate_accuracy"
    /\ Return(evaluate_accuracy(self, call.args.response))

EvaluateCompleteness ==
    /\ call.op = "evaluate_completeness"
    /\ Return(evaluate_completeness(self, call.args.response))

EvaluateTokenEfficiency ==
    /\ call.op = "evaluate_token_efficiency"
    /\ Return(evaluate_token_efficiency(self, call.args.response, call.args.token_count))

DetectFailureBehaviors ==
    /\ call.op = "detect_failure_behaviors"
    /\ Return(detect_failure_behaviors(self, call.args.response))

FullEvaluation ==
    /\ call.op = "full_evaluation"
    /\ Return(full_evaluation(self, call.args.response, call.args.token_count,
                              call.args.clarity_score))

\* The caller keeps the record full_evaluation returned (evaluations[variant] = ...).
Keep ==
    /\ ret.op = "full_evaluation"
    /\ Len(history) < MaxHistory
    /\ history' = Append(history, ret)
    /\ ret' = NoRet
    /\ UNCHANGED <<store, call, threads>>

\* The caller drops the record the last call returned.
Drop ==
    /\ ret # NoRet
    /\ ret' = NoRet
    /\ UNCHANGED <<store, call, history, threads>>

Methods ==
    \/ EvaluateAccuracy
    \/ EvaluateCompleteness
    \/ EvaluateTokenEfficiency
    \/ DetectFailureBehaviors
    \/ FullEvaluation

InvokeAny(responses, token_counts, clarity_scores) ==
    \/ \E r \in responses : Invoke("evaluate_accuracy", [response |-> r])
    \/ \E r \in responses : Invoke("evaluate_completeness", [response |-> r])
    \/ \E r \in responses, t \in token_counts :
           Invoke("evaluate_token_efficiency", [response |-> r, token_count |-> t])
    \/ \E r \in responses : Invoke("detect_failure_behaviors", [response |-> r])
    \/ \E r \in responses, t \in token_counts, c \in clarity_scores :
           Invoke("full_evaluation",
                  [response |-> r, token_count |-> t, clarity_score |-> c])

Next ==
    \/ InvokeAny(Responses, TokenCounts, ClarityScores)
    \/ Methods
    \/ Drop

Spec ==
    Init /\ [][Next]_vars

\* One evaluator per criteria list of the ratio family; evaluate_accuracy only.
InitRatio ==
    /\ accuracy_criteria \in RatioLists
    /\ completeness_checklist = <<>>
    /\ call = NoCall
    /\ ret = NoRet
    /\ history = <<>>
    /\ threads = NoThreads

NextRatio ==
    \/ \E r \in {RespEmpty, CritLeadTime} : Invoke("evaluate_accuracy", [response |-> r])
    \/ EvaluateAccuracy
    \/ Drop

SpecRatio ==
    InitRatio /\ [][NextRatio]_vars

\* A session in which the caller keeps up to MaxHistory records.
InitSession ==
    /\ accuracy_criteria \in SessionAccuracyLists
    /\ completeness_checklist \in SessionCheckLists
    /\ call = NoCall
    /\ ret = NoRet
    /\ history = <<>>
    /\ threads = NoThreads

NextSession ==
    \/ InvokeAny(SessionResponses, SessionTokenCounts, ClarityScores)
    \/ Methods
    \/ Keep
    \/ Drop

SpecSession ==
    InitSession /\ [][NextSession]_vars

\* The caller puts the records it keeps in a mapping, in the order it got
\* them, under distinct variant identifiers; some it has only in part.  It
\* asks for the table of the mapping.
InvokeSummary ==
    /\ call = NoCall
    /\ ret = NoRet
    /\ \A i \in DOMAIN history : ~history[i].raised
    /\ LET n == Len(history)
       IN  \E keys \in [1..n -> VariantIds], removed \in [1..n -> Removals] :
            /\ \A i, j \in 1..n : keys[i] = keys[j] => i = j
            /\ Invoke("create_evaluation_summary",
                   [evaluations |->
                       [i \in 1..n |->
                           [variant_id  |-> keys[i],
                            eval_result |-> Partial(history[i].value, removed[i])]]])

\* create_evaluation_summary returns its rows; no statement of it raises.
CreateEvaluationSummary ==
    /\ call.op = "create_evaluation_summary"
    /\ ret' = [op |-> call.op, args |-> call.args, raised |-> FALSE,
               value |-> create_evaluation_summary(call.args.evaluations)]
    /\ call' = NoCall
    /\ UNCHANGED <<store, history, threads>>

\* An evaluator whose records the caller puts in a mapping and summarises.
InitSummary ==
    /\ accuracy_criteria = <<CritReorderPoint, CritSafetyStock>>
    /\ completeness_checklist = <<CritReorderPoint, CritLeadTime, CritDemandForecasting>>
    /\ call = NoCall
    /\ ret = NoRet
    /\ history = <<>>
    /\ threads = NoThreads

NextSummary ==
    \/ \E x \in SummaryInputs :
           Invoke("full_evaluation",
                  [response |-> x[1], token_count |-> x[2], clarity_score |-> x[3]])
    \/ FullEvaluation
    \/ Keep
    \/ InvokeSummary
    \/ CreateEvaluationSummary
    \/ Drop

SpecSummary ==
    InitSummary /\ [][NextSummary]_vars

----------------------------------------------------------------------------
(* Threads that call the methods of one evaluator, and                     *)
(* create_evaluation_summary, without synchronisation.  A step is one      *)
(* iteration of a loop over a list of the evaluator, or the statements     *)
(* between two reads of the evaluator's lists.                             *)

\* The mappings the threads summarise.
ThreadMappings ==
    { <<>>,
      <<[variant_id |-> "P1_direct", eval_result |-> [clarity_score |-> <<4>>]]>> }

\* The calls the threads make.
ThreadCalls ==
    UNION { { [op |-> "evaluate_accuracy", args |-> [response |-> r]],
              [op |-> "evaluate_completeness", args |-> [response |-> r]],
              [op |-> "evaluate_token_efficiency",
               args |-> [response |-> r, token_count |-> ConciseBelow]],
              [op |-> "detect_failure_behaviors", args |-> [response |-> r]],
              [op |-> "full_evaluation",
               args |-> [response |-> r, token_count |-> ConciseBelow,
                         clarity_score |-> <<>>]] } : r \in SessionResponses }
    \cup { [op |-> "create_evaluation_summary", args |-> [evaluations |-> m]] :
               m \in ThreadMappings }

\* The positions a call of op goes through before it returns.
Stages(op) ==
    CASE op = "evaluate_accuracy" -> <<"accuracy">>
      [] op = "evaluate_completeness" -> <<"completeness">>
      [] op = "evaluate_token_efficiency" -> <<"token_efficiency">>
      [] op = "detect_failure_behaviors" -> <<"failure_behaviors">>
      [] op = "full_evaluation" ->
             <<"accuracy", "completeness", "token_efficiency", "failure_behaviors">>
      [] op = "create_evaluation_summary" -> <<"summary">>

\* The position after pc in a call of op.
After(op, pc) ==
    LET k == CHOOSE j \in DOMAIN Stages(op) : Stages(op)[j] = pc
    IN  IF k < Len(Stages(op)) THEN Stages(op)[k + 1] ELSE "return"

\* Thread t is inside a call.
Active(t) ==
    threads[t].pc \notin {"idle", "returned"}

\* The lists of the loops kept on the evaluator, so that every thread's
\* call uses the same ones.
ScratchOnSelf(t) ==
    CHOOSE u \in Threads : TRUE

\* The frame that holds the lists of the loops thread t's call runs: its
\* own, for matched, missing and covered are locals.
Scratch(t) ==
    t

\* Thread t moves to pc; a loop starts at its first item with empty lists.
Goto(frames, t, pc) ==
    LET moved == [frames EXCEPT ![t].pc = pc, ![t].i = 1]
    IN  IF pc = "accuracy"
        THEN [moved EXCEPT ![Scratch(t)].accuracy_lists = NoAccuracyLists]
        ELSE IF pc = "completeness"
        THEN [moved EXCEPT ![Scratch(t)].completeness_lists = NoCompletenessLists]
        ELSE moved

\* The method at thread t's position returned result: an exception ends the
\* call, a record is kept and the call goes on.
Finish(t, result) ==
    LET f == threads[t]
    IN  Goto([threads EXCEPT ![t].results = (f.pc :> result) @@ @], t,
             IF IsError(result) THEN "return" ELSE After(f.op, f.pc))

\* What the call of frame f returns.
ReturnValue(f) ==
    LET errors == {name \in DOMAIN f.results : IsError(f.results[name])}
    IN  IF f.op = "create_evaluation_summary" THEN f.results["summary"]
        ELSE IF errors # {} THEN f.results[CHOOSE name \in errors : TRUE]
        ELSE IF f.op = "full_evaluation"
        THEN EvaluationRecord(f.results["accuracy"], f.results["completeness"],
                              f.results["token_efficiency"],
                              f.results["failure_behaviors"], f.args.clarity_score)
        ELSE f.results[Stages(f.op)[1]]

Sequential ==
    <<call, ret, history>>

\* Thread t, in no call, makes the call c.
ThreadInvoke(t, c) ==
    /\ threads[t].pc = "idle"
    /\ threads' =
           Goto([u \in Threads |->
                    IF u = t
                    THEN [Idle EXCEPT !.op = c.op, !.args = c.args,
                                      !.overlapped = \E v \in Threads \ {t} : Active(v)]
                    ELSE IF Active(u) THEN [threads[u] EXCEPT !.overlapped = TRUE]
                    ELSE threads[u]],
                t, Stages(c.op)[1])
    /\ UNCHANGED <<store, Sequential>>

\* One iteration of for criterion in self.accuracy_criteria.
AccuracyIteration(t) ==
    /\ threads[t].pc = "accuracy"
    /\ threads[t].i <= Len(accuracy_criteria)
    /\ threads' =
           [threads EXCEPT
               ![Scratch(t)].accuracy_lists =
                   AccuracyLoop(<<accuracy_criteria[threads[t].i]>>,
                                lower(threads[t].args.response), 1, @),
               ![t].i = @ + 1]
    /\ UNCHANGED <<store, Sequential>>

\* The loop is over: evaluate_accuracy computes its record.
AccuracyReturn(t) ==
    /\ threads[t].pc = "accuracy"
    /\ threads[t].i > Len(accuracy_criteria)
    /\ threads' = Finish(t, AccuracyResult(self, threads[Scratch(t)].accuracy_lists))
    /\ UNCHANGED <<store, Sequential>>

\* One iteration of for item in self.completeness_checklist.
CompletenessIteration(t) ==
    /\ threads[t].pc = "completeness"
    /\ threads[t].i <= Len(completeness_checklist)
    /\ threads' =
           [threads EXCEPT
               ![Scratch(t)].completeness_lists =
                   CompletenessLoop(<<completeness_checklist[threads[t].i]>>,
                                    lower(threads[t].args.response), 1, @),
               ![t].i = @ + 1]
    /\ UNCHANGED <<store, Sequential>>

\* The loop is over: evaluate_completeness computes its record.
CompletenessReturn(t) ==
    /\ threads[t].pc = "completeness"
    /\ threads[t].i > Len(completeness_checklist)
    /\ threads' = Finish(t, CompletenessResult(self,
                                 threads[Scratch(t)].completeness_lists))
    /\ UNCHANGED <<store, Sequential>>

\* evaluate_token_efficiency reads no field of the evaluator.
TokenEfficiencyStep(t) ==
    /\ threads[t].pc = "token_efficiency"
    /\ threads' = Finish(t, evaluate_token_efficiency(self, threads[t].args.response,
                                                      threads[t].args.token_count))
    /\ UNCHANGED <<store, Sequential>>

\* detect_failure_behaviors reads no field of the evaluator.
FailureBehaviorsStep(t) ==
    /\ threads[t].pc = "failure_behaviors"
    /\ threads' = Finish(t, detect_failure_behaviors(self, threads[t].args.response))
    /\ UNCHANGED <<store, Sequential>>

\* create_evaluation_summary reads its argument only.
SummaryStep(t) ==
    /\ threads[t].pc = "summary"
    /\ threads' =
           Goto([threads EXCEPT
                    ![t].results =
                        ("summary" :> create_evaluation_summary(threads[t].args.evaluations))
                            @@ @],
                t, "return")
    /\ UNCHANGED <<store, Sequential>>

\* The call returns to the thread.
ThreadReturn(t) ==
    /\ threads[t].pc = "return"
    /\ threads' = [threads EXCEPT ![t].pc = "returned",
                                  ![t].value = ReturnValue(threads[t])]
    /\ UNCHANGED <<store, Sequential>>

\* The thread is done with the value.
ThreadDrop(t) ==
    /\ threads[t].pc = "returned"
    /\ threads' = [threads EXCEPT ![t] = Idle]
    /\ UNCHANGED <<store, Sequential>>

InitThreads ==
    /\ accuracy_criteria = <<CritReorderPoint, CritSafetyStock>>
    /\ completeness_checklist = <<CritReorderPoint, CritLeadTime, CritDemandForecasting>>
    /\ call = NoCall
    /\ ret = NoRet
    /\ history = <<>>
    /\ threads = NoThreads

NextThreads ==
    \E t \in Threads :
        \/ \E c \in ThreadCalls : ThreadInvoke(t, c)
        \/ AccuracyIteration(t)
        \/ AccuracyReturn(t)
        \/ CompletenessIteration(t)
        \/ CompletenessReturn(t)
        \/ TokenEfficiencyStep(t)
        \/ FailureBehaviorsStep(t)
        \/ SummaryStep(t)
        \/ ThreadReturn(t)
        \/ ThreadDrop(t)

SpecThreads ==
    InitThreads /\ [][NextThreads]_vars

----------------------------------------------------------------------------
(* Properties.  A returned record is read through the accessors below,     *)
(* which also reach the four records nested in full_evaluation's.          *)

Returned(ops) ==
    ret.op \in ops /\ ~ret.raised

AccuracyOf(r) ==
    IF r.op = "full_evaluation" THEN r.value.accuracy ELSE r.value

CompletenessOf(r) ==
    IF r.op = "full_evaluation" THEN r.value.completeness ELSE r.value

EfficiencyOf(r) ==
    IF r.op = "full_evaluation" THEN r.value.token_efficiency ELSE r.value

FailuresOf(r) ==
    IF r.op = "full_evaluation" THEN r.value.failure_behaviors ELSE r.value

AccuracyOps ==
    {"evaluate_accuracy", "full_evaluation"}

CompletenessOps ==
    {"evaluate_completeness", "full_evaluation"}

EfficiencyOps ==
    {"evaluate_token_efficiency", "full_evaluation"}

FailureOps ==
    {"detect_failure_behaviors", "full_evaluation"}

\* Some whitespace-delimited token of the lower-cased text, c[i..j], occurs
\* somewhere in the lower-cased response.
HasTokenIn(text, response) ==
    LET c == lower(text)
        r == lower(response)
    IN  \E i \in 1..Len(c), j \in 1..Len(c) :
            /\ i <= j
            /\ \A k \in i..j : c[k] \notin Whitespace
            /\ i = 1 \/ c[i - 1] \in Whitespace
            /\ j = Len(c) \/ c[j + 1] \in Whitespace
            /\ \E at \in 0..(Len(r) - (j - i + 1)) :
                   \A d \in 0..(j - i) : r[at + 1 + d] = c[i + d]

\* Every entry of list is in `yes` exactly when it has a token in the
\* response, and in `no` exactly when it has none.
SortedByToken(list, response, yes, no) ==
    \A k \in DOMAIN list :
        /\ list[k] \in Range(yes) <=> HasTokenIn(list[k], response)
        /\ list[k] \in Range(no) <=> ~HasTokenIn(list[k], response)
        /\ (\A n \in DOMAIN list[k] : list[k][n] \in Whitespace) => list[k] \in Range(no)

\* C1: evaluate_accuracy and evaluate_completeness put a criterion in the
\* matched/covered list if and only if at least one whitespace-delimited
\* token of the lower-cased criterion is a substring of the lower-cased
\* response; a criterion with no token is always in the missing list.
C1_KeywordRule ==
    /\ Returned(AccuracyOps) =>
           SortedByToken(accuracy_criteria, ret.args.response,
                         AccuracyOf(ret).matched_criteria, AccuracyOf(ret).missing_criteria)
    /\ Returned(CompletenessOps) =>
           SortedByToken(completeness_checklist, ret.args.response,
                         CompletenessOf(ret).covered_items, CompletenessOf(ret).missing_items)

\* "Stock" is matched by "restocking" inside a word and across case, next to
\* an empty criterion that is missing.
C1_Witness ==
    /\ Returned({"evaluate_accuracy"})
    /\ ret.args.response = RespRestock
    /\ CritStockUpper \in Range(ret.value.matched_criteria)
    /\ CritEmpty \in Range(ret.value.missing_criteria)
    /\ CritBlank \in Range(ret.value.missing_criteria)

\* The number of entries of list equal to v.
Count(list, v) ==
    Cardinality({k \in DOMAIN list : list[k] = v})

\* yes and no together hold every entry of list exactly once.
Partition(list, yes, no) ==
    /\ Len(yes) + Len(no) = Len(list)
    /\ Range(yes) \cap Range(no) = {}
    /\ \A v \in Range(list) \cup Range(yes) \cup Range(no) :
           Count(yes, v) + Count(no, v) = Count(list, v)

\* C2: evaluate_accuracy classifies each criterion exactly once, duplicates
\* included: len(matched) + len(missing) is the number of criteria and no
\* entry is in both lists; the same for evaluate_completeness.
C2_ClassifiedOnce ==
    /\ Returned(AccuracyOps) =>
           Partition(accuracy_criteria,
                     AccuracyOf(ret).matched_criteria, AccuracyOf(ret).missing_criteria)
    /\ Returned(CompletenessOps) =>
           Partition(completeness_checklist,
                     CompletenessOf(ret).covered_items, CompletenessOf(ret).missing_items)

\* A criteria list with a repeated entry, split into two non-empty lists.
C2_Witness ==
    /\ Returned({"evaluate_accuracy"})
    /\ Count(accuracy_criteria, CritStockUpper) = 2
    /\ Count(ret.value.matched_criteria, CritStockUpper) = 2
    /\ Len(ret.value.missing_criteria) > 0

\* The score the thresholds 0.4 and 0.8 give a ratio held in hundredths.
ScoreOfHundredths(r) ==
    IF r >= 80 THEN 2 ELSE IF r >= 40 THEN 1 ELSE 0

\* The score the thresholds give the exact ratio matched / total.
ScoreOfQuotient(matched, total) ==
    IF total = 0 THEN 0
    ELSE IF 10 * matched >= 8 * total THEN 2
    ELSE IF 10 * matched >= 4 * total THEN 1
    ELSE 0

\* C3 as stated: the score and the ratio returned together satisfy ratio in
\* [0, 0.4) -> 0, [0.4, 0.8) -> 1, [0.8, 1] -> 2, the ratio being the one
\* rounded to 2 decimals.
C3_ScoreOfReturnedRatio ==
    Returned({"evaluate_accuracy"}) =>
        ret.value.score = ScoreOfHundredths(ret.value.ratio)

\* C3, amended: the thresholds 0.4 and 0.8 are applied to the unrounded
\* matched / total (0 for an empty list).  Of the returned, rounded ratio:
\* below 0.4 the score is 0, strictly between 0.4 and 0.8 it is 1, above 0.8
\* it is 2; at exactly 0.4 it is 0 or 1 and at exactly 0.8 it is 1 or 2.
\* The score lies in 0..2.
C3_ScoreOfUnroundedRatio ==
    Returned({"evaluate_accuracy"}) =>
        LET score == ret.value.score
            ratio == ret.value.ratio
        IN  /\ score = ScoreOfQuotient(Len(ret.value.matched_criteria),
                                       Len(accuracy_criteria))
            /\ score \in 0..2
            /\ ratio \in 0..100
            /\ ratio \notin {40, 80} => score = ScoreOfHundredths(ratio)
            /\ ratio = 40 => score \in {0, 1}
            /\ ratio = 80 => score \in {1, 2}

\* 17 of 43 criteria matched: the ratio 0.3953.. is returned as 0.4 with
\* the score 0.
C3_Witness ==
    /\ Returned({"evaluate_accuracy"})
    /\ Len(accuracy_criteria) = 43
    /\ Len(ret.value.matched_criteria) = 17
    /\ ret.value.ratio = 40
    /\ ret.value.score = 0

\* C4: no scorer fails on a degenerate input: with an empty criteria list
\* evaluate_accuracy returns ratio 0, score 0 and two empty lists; with an
\* empty checklist evaluate_completeness returns percentage 0 and two empty
\* lists; with token_count 0 evaluate_token_efficiency returns
\* words_per_token 0; and no call raises.
C4_DegenerateInputs ==
    /\ ret.op # "none" => ~ret.raised
    /\ Returned(AccuracyOps) /\ Len(accuracy_criteria) = 0 =>
           /\ AccuracyOf(ret).ratio = 0
           /\ AccuracyOf(ret).score = 0
           /\ AccuracyOf(ret).matched_criteria = <<>>
           /\ AccuracyOf(ret).missing_criteria = <<>>
    /\ Returned(CompletenessOps) /\ Len(completeness_checklist) = 0 =>
           /\ CompletenessOf(ret).percentage = 0
           /\ CompletenessOf(ret).covered_items = <<>>
           /\ CompletenessOf(ret).missing_items = <<>>
    /\ Returned(EfficiencyOps) /\ ret.args.token_count = 0 =>
           EfficiencyOf(ret).words_per_token = 0

\* The three degenerate inputs at once, on a response that has words: no
\* criteria, no checklist, token_count 0.
C4_Witness ==
    /\ Returned({"full_evaluation"})
    /\ accuracy_criteria = <<>>
    /\ completeness_checklist = <<>>
    /\ ret.args.token_count = 0
    /\ ret.args.response = RespExample
    /\ ret.value.token_efficiency.word_count > 0

\* C5: efficiency_rating is a step function of token_count alone: below 200
\* Concise, from 200 and below 500 Moderate, from 500 Verbose, whatever the
\* response; the returned token_count is the supplied one.
C5_RatingByTokenCount ==
    Returned(EfficiencyOps) =>
        LET token_count == ret.args.token_count
        IN  /\ EfficiencyOf(ret).token_count = token_count
            /\ EfficiencyOf(ret).efficiency_rating =
                   IF token_count < 200 THEN "Concise"
                   ELSE IF token_count < 500 THEN "Moderate"
                   ELSE "Verbose"

\* 200 tokens rate Moderate, on a response of more than 600 words.
C5_Witness ==
    /\ Returned({"evaluate_token_efficiency"})
    /\ ret.args.token_count = 200
    /\ ret.value.efficiency_rating = "Moderate"
    /\ ret.value.word_count > 600

\* The issue types in the order of the four checks.
IssueOrder ==
    <<"Overconfidence", "Potential Hallucination", "Over-elaboration",
      "Missing Uncertainty Language">>

\* The place of an issue type in IssueOrder, 0 for any other type.
OrderIndex(type) ==
    IF \E k \in DOMAIN IssueOrder : IssueOrder[k] = type
    THEN CHOOSE k \in DOMAIN IssueOrder : IssueOrder[k] = type
    ELSE 0

HasIssue(failures, type) ==
    \E i \in DOMAIN failures.issues : failures.issues[i].type = type

\* C6: the issues list holds each issue type at most once, in the fixed
\* order of the four checks, and issue_count is its length, in 0..4.
C6_IssuesOrdered ==
    Returned(FailureOps) =>
        LET issues == FailuresOf(ret).issues
        IN  /\ \A i \in DOMAIN issues : OrderIndex(issues[i].type) > 0
            /\ \A i, j \in DOMAIN issues :
                   i < j => OrderIndex(issues[i].type) < OrderIndex(issues[j].type)
            /\ FailuresOf(ret).issue_count = Len(issues)
            /\ FailuresOf(ret).issue_count \in 0..4

\* All four issues at once.
C6_Witness ==
    /\ Returned({"detect_failure_behaviors"})
    /\ ret.value.issue_count = 4
    /\ [i \in 1..4 |-> ret.value.issues[i].type] = IssueOrder

\* The fragments C7 counts: a run of two or more digits that starts the
\* text or follows a non-word character, then optional whitespace and a %
\* sign that ends the text or is followed by whitespace; or a $ that starts
\* the text or follows whitespace, with a digit after it.
StandaloneFragments(s) ==
    LET percents == {i \in 1..Len(s) :
                        /\ IsDigit(s[i])
                        /\ ~IsWord(CharAt(s, i - 1))
                        /\ \E j \in (i + 1)..Len(s), k \in (i + 2)..Len(s) :
                               /\ j < k
                               /\ \A d \in i..j : IsDigit(s[d])
                               /\ \A w \in (j + 1)..(k - 1) : IsSpace(s[w])
                               /\ s[k] = "%"
                               /\ k = Len(s) \/ IsSpace(s[k + 1])}
        dollars  == {i \in 1..Len(s) :
                        /\ s[i] = "$"
                        /\ i = 1 \/ IsSpace(s[i - 1])
                        /\ IsDigit(CharAt(s, i + 1))}
    IN  Cardinality(percents) + Cardinality(dollars)

\* C7: a Potential Hallucination issue (severity High, the count in its
\* description) is emitted exactly when the response holds more than 3
\* standalone percentages or dollar amounts.
C7_HallucinationOnStandalone ==
    Returned({"detect_failure_behaviors"}) =>
        LET n == StandaloneFragments(ret.args.response)
        IN  /\ n > 3 => \E i \in DOMAIN ret.value.issues :
                            ret.value.issues[i] = HallucinationIssue(n)
            /\ n <= 3 => ~HasIssue(ret.value, "Potential Hallucination")

\* The hedging phrases of C8.
HedgingWords ==
    {P_may, P_might, P_could, P_typically, P_often, P_generally, P_depending_on}

\* Some response of the model leads to each combination of Overconfidence
\* (emitted or not) and Missing Uncertainty Language (emitted or not).
AllCombinations ==
    \A over, missing \in BOOLEAN :
        \E r \in ShortResponses :
            LET failures == detect_failure_behaviors(
                                [accuracy_criteria |-> <<>>, completeness_checklist |-> <<>>], r)
            IN  /\ HasIssue(failures, "Overconfidence") = over
                /\ HasIssue(failures, "Missing Uncertainty Language") = missing

\* C8: the Missing Uncertainty Language issue is emitted if and only if the
\* lower-cased response contains none of the hedging phrases, whether or
\* not Overconfidence is emitted: every combination of the two occurs.
C8_HedgingIndependent ==
    /\ AllCombinations
    /\ Returned(FailureOps) =>
           (HasIssue(FailuresOf(ret), "Missing Uncertainty Language")
               <=> \A phrase \in HedgingWords :
                       ~Contains(lower(ret.args.response), phrase))

\* A response flagged as overconfident and as lacking hedging language.
C8_Witness ==
    /\ Returned({"detect_failure_behaviors"})
    /\ HasIssue(ret.value, "Overconfidence")
    /\ HasIssue(ret.value, "Missing Uncertainty Language")

\* C9: in every record full_evaluation returns, summary copies the nested
\* metrics: accuracy.score, completeness.percentage,
\* token_efficiency.token_count, and failure_behaviors.issue_count, which is
\* the length of failure_behaviors.issues.
C9_SummaryReadThrough ==
    Returned({"full_evaluation"}) =>
        LET v == ret.value
        IN  /\ v.summary.accuracy_score = v.accuracy.score
            /\ v.summary.completeness_pct = v.completeness.percentage
            /\ v.summary.token_count = v.token_efficiency.token_count
            /\ v.summary.issue_count = v.failure_behaviors.issue_count
            /\ v.summary.issue_count = Len(v.failure_behaviors.issues)

\* A record whose four summary fields are all non-zero.
C9_Witness ==
    /\ Returned({"full_evaluation"})
    /\ ret.value.summary.accuracy_score = 1
    /\ ret.value.summary.completeness_pct = 333
    /\ ret.value.summary.token_count = 499
    /\ ret.value.summary.issue_count = 1

\* Two full_evaluation records for the same arguments are equal.
SameResult(a, b) ==
    a.args = b.args => a.raised = b.raised /\ a.value = b.value

Alone(f) ==
    CASE f.op = "evaluate_accuracy" -> evaluate_accuracy(self, f.args.response)
      [] f.op = "evaluate_completeness" -> evaluate_completeness(self, f.args.response)
      [] f.op = "evaluate_token_efficiency" ->
             evaluate_token_efficiency(self, f.args.response, f.args.token_count)
      [] f.op = "detect_failure_behaviors" ->
             detect_failure_behaviors(self, f.args.response)
      [] f.op = "full_evaluation" ->
             full_evaluation(self, f.args.response, f.args.token_count,
                             f.args.clarity_score)
      [] f.op = "create_evaluation_summary" ->
             create_evaluation_summary(f.args.evaluations)

\* C11: no step of any call, in any interleaving of the calls of the threads,
\* changes accuracy_criteria or completeness_checklist, and every call returns
\* the value it returns when it runs alone, whatever calls overlapped it.
C11_CallsIsolated ==
    /\ [][store' = store]_vars
    /\ [](\A t \in Threads :
             threads[t].pc = "returned" => threads[t].value = Alone(threads[t]))

\* Both threads hold the value of a call that overlapped the other's:
\* full_evaluation and evaluate_accuracy on the same response.
C11_Witness ==
    /\ \A t \in Threads : threads[t].pc = "returned" /\ threads[t].overlapped
    /\ threads["t1"].op = "full_evaluation"
    /\ threads["t2"].op = "evaluate_accuracy"
    /\ threads["t1"].args.response = RespExample
    /\ threads["t2"].args.response = RespExample
    /\ Len(threads["t2"].value.matched_criteria) = 1

\* The metric columns of a row, each with the summary field it shows.
MetricColumns ==
    { <<"Accuracy", "accuracy_score">>, <<"Completeness", "completeness_pct">>,
      <<"TokenCount", "token_count">>, <<"IssuesFound", "issue_count">> }

\* The record has a summary and the summary has the field.
HasField(eval_result, field) ==
    /\ "summary" \in DOMAIN eval_result
    /\ field \in DOMAIN eval_result.summary

IsPartial(eval_result) ==
    \E c \in MetricColumns : ~HasField(eval_result, c[2])

\* C12: create_evaluation_summary returns one row per entry of the mapping,
\* in the mapping's iteration order; row i has the key of entry i for its
\* Variant and, in each metric column, the field of entry i's summary the
\* column shows; for the empty mapping it returns the empty sequence.
C12_OneRowPerEntry ==
    ret.op = "create_evaluation_summary" =>
        LET evaluations == ret.args.evaluations
            rows == ret.value
        IN  /\ ~ret.raised
            /\ DOMAIN rows = DOMAIN evaluations
            /\ evaluations = <<>> => rows = <<>>
            /\ \A i \in DOMAIN evaluations :
                   /\ rows[i].Variant = evaluations[i].variant_id
                   /\ \A c \in MetricColumns :
                          HasField(evaluations[i].eval_result, c[2]) =>
                              rows[i][c[1]] =
                                  [value |-> evaluations[i].eval_result.summary[c[2]]]

\* The table of a mapping of two whole records that differ in every metric,
\* the later variant first.
C12_Witness ==
    /\ ret.op = "create_evaluation_summary"
    /\ Len(ret.args.evaluations) = 2
    /\ ret.args.evaluations[1].variant_id = "P2_constrained"
    /\ ret.args.evaluations[2].variant_id = "P1_direct"
    /\ \A i \in 1..2 : ~IsPartial(ret.args.evaluations[i].eval_result)
    /\ \A c \in MetricColumns : ret.value[1][c[1]] # ret.value[2][c[1]]

\* C13: create_evaluation_summary returns a row for every entry, also when
\* an entry has no summary or its summary lacks accuracy_score,
\* completeness_pct, token_count or issue_count: the column of a lacking
\* field holds 'N/A', and the row of a whole record is the row that record
\* gets in a mapping of its own.
C13_PartialTolerated ==
    ret.op = "create_evaluation_summary" =>
        LET evaluations == ret.args.evaluations
            rows == ret.value
        IN  /\ ~ret.raised
            /\ DOMAIN rows = DOMAIN evaluations
            /\ \A i \in DOMAIN evaluations :
                   /\ \A c \in MetricColumns :
                          ~HasField(evaluations[i].eval_result, c[2]) =>
                              rows[i][c[1]] = [text |-> "N/A"]
                   /\ ~IsPartial(evaluations[i].eval_result) =>
                          <<rows[i]>> = create_evaluation_summary(<<evaluations[i]>>)

\* The table of a record without a summary followed by a whole record.
C13_Witness ==
    /\ ret.op = "create_evaluation_summary"
    /\ Len(ret.args.evaluations) = 2
    /\ "summary" \notin DOMAIN ret.args.evaluations[1].eval_result
    /\ ~IsPartial(ret.args.evaluations[2].eval_result)
    /\ ret.value[2].Accuracy = [value |-> 1]

\* C14: in the table, the row of a record full_evaluation returned without a
\* clarity score has 'TBD' in its clarity column, and the row of a record it
\* returned with a clarity score has that score.
C14_ClarityColumn ==
    ret.op = "create_evaluation_summary" =>
        LET evaluations == ret.args.evaluations
            rows == ret.value
        IN  \A i \in DOMAIN evaluations : \A x \in SummaryInputs :
                evaluations[i].eval_result = full_evaluation(self, x[1], x[2], x[3]) =>
                    rows[i].Clarity =
                        IF x[3] = <<>> THEN [text |-> "TBD"] ELSE [value |-> x[3]]

====
